---- MODULE Spec2Model ----
(***************************************************************************)
(* Model of the actix-todo-api Todo pipeline: payload model                *)
(* (models/todo.rs), validation (repository/mod.rs), the SQLite            *)
(* repository (repository/sqlite.rs), the service                         *)
(* (services/todo_service.rs), the error responses (error.rs) and the      *)
(* HTTP routes (routes/mod.rs, routes/todos.rs); and of the User example   *)
(* (src/main.rs), whose handlers share a mutex-guarded map.                *)
(*                                                                         *)
(* Rust values are encoded as follows.                                     *)
(*   String         its runs of equal characters, in order: a sequence of  *)
(*                  [ch, n] with n >= 1 and neighbours of different ch, so *)
(*                  that equal strings have equal encodings                *)
(*   Option<T>      None == <<>>, Some(v) == <<v>>                         *)
(*   OffsetDateTime a natural number (a point on the time line)            *)
(*   Result<T, E>   a status ("Ok", "Validation", "NotFound", "Db") and a   *)
(*                  value                                                  *)
(***************************************************************************)
EXTENDS Naturals, Integers, Sequences, FiniteSets, TLC

VARIABLES
    rows,        \* table todos: id -> Todo, the rows currently stored
    seq,         \* the largest rowid the table ever assigned
    last_rowid,  \* last_insert_rowid() of the one connection that calls made
                 \* one after the other use
    clock,       \* the latest reading of OffsetDateTime::now_utc()
    issued,      \* history: the ids returned by successful create calls
    call,        \* the latest call: its operation, arguments and result
    pool,        \* SqlitePool: connection -> its last_insert_rowid()
    creates,     \* callers of SqliteTodoRepo::create at once: caller -> the
                 \* point its call has reached, and its locals
    users,       \* User example: the HashMap<u64, User> inside the Mutex
    lock,        \* User example: the worker that holds the Mutex, if any
    handlers     \* User example: worker -> its request, the point its
                 \* handler has reached, its locals and its last response

vars == <<rows, seq, last_rowid, clock, issued, call, pool, creates,
          users, lock, handlers>>

\* the Todo store and its callers; the User example
todo_vars == <<rows, seq, last_rowid, clock, issued, call, pool, creates>>
user_vars == <<users, lock, handlers>>

----------------------------------------------------------------------------
(* Bounds of the model *)

\* at most MaxId rows are ever inserted
MaxId == 2
\* now_utc() returns readings in 0..MaxClock
MaxClock == 1
\* SpecUpdate: the table holds at most MaxLive rows at a time
MaxLive == 1
\* SpecCreate: the pool holds MaxConns connections (new_pool allows 10)
MaxConns == 2
\* SpecUser: create_user assigns ids in 1..MaxUsers
MaxUsers == 2

----------------------------------------------------------------------------
(* Options and strings *)

None == <<>>
Some(v) == <<v>>
IsSome(o) == o # <<>>
Unwrap(o) == o[1]

\* the string of n >= 1 characters c
Rep(c, n) == <<[ch |-> c, n |-> n]>>

\* the characters str::trim strips (White_Space); one representative
WhiteSpace == {" "}

IsWhiteSpace(c) == c \in WhiteSpace

\* str::trim: the slice from the first to the last non-whitespace character,
\* empty when there is none
Trim(s) ==
    IF \A i \in 1..Len(s) : IsWhiteSpace(s[i].ch) THEN <<>>
    ELSE LET first == CHOOSE i \in 1..Len(s) :
                        ~IsWhiteSpace(s[i].ch) /\ \A j \in 1..(i - 1) : IsWhiteSpace(s[j].ch)
             last  == CHOOSE i \in 1..Len(s) :
                        ~IsWhiteSpace(s[i].ch) /\ \A j \in (i + 1)..Len(s) : IsWhiteSpace(s[j].ch)
         IN  SubSeq(s, first, last)

RECURSIVE CharCount(_)
\* str::chars().count()
CharCount(s) == IF s = <<>> THEN 0 ELSE Head(s).n + CharCount(Tail(s))

----------------------------------------------------------------------------
(* Validation: repository/mod.rs *)

MaxTitleLen == 200
MaxDescLen == 2000

\* validate_new_todo with the title limit off by one (>= for >)
validate_new_todo_OffByOne(new) ==
    LET title_len == CharCount(Trim(new.title))
    IN  IF title_len = 0 \/ title_len >= MaxTitleLen THEN "Validation"
        ELSE IF IsSome(new.description)
                /\ CharCount(Unwrap(new.description)) > MaxDescLen
             THEN "Validation"
        ELSE "Ok"

\* validate_new_todo counting the title as given, without trim()
validate_new_todo_NoTrim(new) ==
    LET title_len == CharCount(new.title)
    IN  IF title_len = 0 \/ title_len > MaxTitleLen THEN "Validation"
        ELSE IF IsSome(new.description)
                /\ CharCount(Unwrap(new.description)) > MaxDescLen
             THEN "Validation"
        ELSE "Ok"

\* validate_new_todo: "Ok" or "Validation"
validate_new_todo(new) ==
    LET title_len == CharCount(Trim(new.title))
    IN  IF title_len = 0 \/ title_len > MaxTitleLen THEN "Validation"
        ELSE IF IsSome(new.description)
                /\ CharCount(Unwrap(new.description)) > MaxDescLen
             THEN "Validation"
        ELSE "Ok"

TitleMessage == "title must be 1..=200 characters"
DescriptionMessage == "description must be <= 2000 characters"

\* validate_update_todo with the description checked before the title
validate_update_error_DescriptionFirst(up) ==
    IF IsSome(up.description)
       /\ IsSome(Unwrap(up.description))
       /\ CharCount(Unwrap(Unwrap(up.description))) > MaxDescLen
    THEN Some(DescriptionMessage)
    ELSE IF IsSome(up.title)
            /\ LET title_len == CharCount(Trim(Unwrap(up.title)))
               IN  title_len = 0 \/ title_len > MaxTitleLen
         THEN Some(TitleMessage)
    ELSE None

\* validate_update_todo: the message of the Err(AppError::Validation(..)) it
\* returns, None when it returns Ok(())
validate_update_error(up) ==
    IF IsSome(up.title)
       /\ LET title_len == CharCount(Trim(Unwrap(up.title)))
          IN  title_len = 0 \/ title_len > MaxTitleLen
    THEN Some(TitleMessage)
    ELSE IF IsSome(up.description)
            /\ IsSome(Unwrap(up.description))
            /\ CharCount(Unwrap(Unwrap(up.description))) > MaxDescLen
         THEN Some(DescriptionMessage)
    ELSE None

\* validate_update_todo: "Ok" or "Validation"
validate_update_todo(up) ==
    IF IsSome(validate_update_error(up)) THEN "Validation" ELSE "Ok"

----------------------------------------------------------------------------
(* The table and its statements: repository/sqlite.rs *)

\* the rowid of a table whose id column is not AUTOINCREMENT: one more than
\* the largest id stored now
NextRowId_MaxPlusOne ==
    IF DOMAIN rows = {} THEN 1
    ELSE 1 + CHOOSE m \in DOMAIN rows : \A i \in DOMAIN rows : i <= m

\* the rowid INSERT assigns: one more than the largest rowid ever assigned
NextRowId == seq + 1

\* SELECT ... FROM todos WHERE id = ? (fetch_optional)
fetch_by_id(tbl, id) == IF id \in DOMAIN tbl THEN Some(tbl[id]) ELSE None

\* the INSERT with title and description bound after trim()
InsertRow_Trimmed(id, new, now) ==
    [id          |-> id,
     title       |-> Trim(new.title),
     description |-> IF IsSome(new.description)
                     THEN Some(Trim(Unwrap(new.description))) ELSE None,
     completed   |-> FALSE,
     due_date    |-> new.due_date,
     created_at  |-> now,
     updated_at  |-> now]

\* the INSERT with a later reading bound to created_at than to updated_at
InsertRow_CreatedLater(id, new, now) ==
    [id          |-> id,
     title       |-> new.title,
     description |-> new.description,
     completed   |-> FALSE,
     due_date    |-> new.due_date,
     created_at  |-> now + 1,
     updated_at  |-> now]

\* INSERT INTO todos (title, description, completed, due_date, created_at,
\* updated_at) VALUES (?, ?, 0, ?, ?, ?)
InsertRow(id, new, now) ==
    [id          |-> id,
     title       |-> new.title,
     description |-> new.description,
     completed   |-> FALSE,
     due_date    |-> new.due_date,
     created_at  |-> now,
     updated_at  |-> now]

\* the row after a SET list of updated_at and of every other column whose
\* field is Some
UpdateRow(row, up, now) ==
    [id          |-> row.id,
     title       |-> IF IsSome(up.title) THEN Unwrap(up.title) ELSE row.title,
     description |-> IF IsSome(up.description) THEN Unwrap(up.description)
                     ELSE row.description,
     completed   |-> IF IsSome(up.completed) THEN Unwrap(up.completed)
                     ELSE row.completed,
     due_date    |-> IF IsSome(up.due_date) THEN Unwrap(up.due_date)
                     ELSE row.due_date,
     created_at  |-> row.created_at,
     updated_at  |-> now]

\* DELETE FROM todos without its WHERE clause
DeleteRow_NoWhere(tbl, id) == << >>

\* the table without the row of id (DELETE FROM todos WHERE id = ?)
DeleteRow(tbl, id) == [i \in DOMAIN tbl \ {id} |-> tbl[i]]

\* The outcome of one repository or service call: its result (status, ret,
\* flag, items) and the store it leaves.
Outcome(status, ret, flag, items, tbl, sq, lr, clk) ==
    [status |-> status, ret |-> ret, flag |-> flag, items |-> items,
     rows |-> tbl, seq |-> sq, last_rowid |-> lr, clock |-> clk]

\* a call that returns before it touches the store or reads the clock
Unchanged(status, ret, flag, items) ==
    Outcome(status, ret, flag, items, rows, seq, last_rowid, clock)

\* SqliteTodoRepo::create
SqliteTodoRepo_create(new, now) ==
    IF validate_new_todo(new) # "Ok" THEN Unchanged("Validation", None, FALSE, <<>>)
    ELSE LET inserted == rows @@ (NextRowId :> InsertRow(NextRowId, new, now))
             lr       == NextRowId   \* the connection's last_insert_rowid
             id       == lr          \* SELECT last_insert_rowid()
             todo     == fetch_by_id(inserted, id)
         IN  Outcome(IF IsSome(todo) THEN "Ok" ELSE "Panic",  \* .expect(..)
                     todo, FALSE, <<>>, inserted, NextRowId, lr, now)

\* SqliteTodoRepo::get_by_id
SqliteTodoRepo_get_by_id(id) ==
    Unchanged("Ok", fetch_by_id(rows, id), FALSE, <<>>)

\* sqlx QueryBuilder::separated(", "): the text pushed so far, as tokens, and
\* whether the next push is preceded by the separator
Separated(sql) == [sql |-> sql, push_separator |-> FALSE]

\* Separated::push: the separator if one is due, then the fragment
SepPush(sp, frag) ==
    [sql |-> sp.sql \o (IF sp.push_separator THEN <<",">> ELSE <<>>) \o <<frag>>,
     push_separator |-> TRUE]

\* Separated::push_bind: the separator if one is due, then the placeholder
SepPushBind(sp) ==
    [sql |-> sp.sql \o (IF sp.push_separator THEN <<",">> ELSE <<>>) \o <<"?">>,
     push_separator |-> TRUE]

\* SqliteTodoRepo::update, lines 131-160: the statement the QueryBuilder holds
\* when it is built
update_sql(up) ==
    LET s0 == Separated(<<"UPDATE todos SET">>)
        s1 == SepPushBind(SepPush(s0, "updated_at ="))
        s2 == IF IsSome(up.title) THEN SepPushBind(SepPush(s1, "title =")) ELSE s1
        s3 == IF ~IsSome(up.description) THEN s2
              ELSE IF IsSome(Unwrap(up.description))
                   THEN SepPushBind(SepPush(s2, "description ="))
                   ELSE SepPush(s2, "description = NULL")
        s4 == IF IsSome(up.completed) THEN SepPushBind(SepPush(s3, "completed =")) ELSE s3
        s5 == IF ~IsSome(up.due_date) THEN s4
              ELSE IF IsSome(Unwrap(up.due_date))
                   THEN SepPushBind(SepPush(s4, "due_date ="))
                   ELSE SepPush(s4, "due_date = NULL")
    IN  s5.sql \o <<"WHERE id =", "?">>

\* SQLite's grammar of the SET list: assignments column = expr, separated by
\* commas; here expr is a placeholder or NULL
AssignTo == {"updated_at =", "title =", "description =", "completed =", "due_date ="}
AssignNull == {"description = NULL", "due_date = NULL"}

RECURSIVE IsSetList(_)
IsSetList(t) ==
    LET n == IF Len(t) >= 1 /\ t[1] \in AssignNull THEN 1
             ELSE IF Len(t) >= 2 /\ t[1] \in AssignTo /\ t[2] = "?" THEN 2
             ELSE 0
    IN  /\ n > 0
        /\ \/ Len(t) = n
           \/ /\ Len(t) > n + 1
              /\ t[n + 1] = ","
              /\ IsSetList(SubSeq(t, n + 2, Len(t)))

\* whether SQLite prepares the statement: UPDATE todos SET <list> WHERE id = ?
Prepares(sql) ==
    /\ Len(sql) >= 4
    /\ sql[1] = "UPDATE todos SET"
    /\ SubSeq(sql, Len(sql) - 1, Len(sql)) = <<"WHERE id =", "?">>
    /\ IsSetList(SubSeq(sql, 2, Len(sql) - 2))

\* SqliteTodoRepo::update: validation (items holds the message of its error),
\* the clock, the statement; execute fails
\* with a sqlx::Error (AppError::Db) when SQLite rejects the statement, and
\* otherwise the row of id, if any, takes the SET list and is read back
SqliteTodoRepo_update(id, up, now) ==
    IF validate_update_todo(up) # "Ok"
    THEN Unchanged("Validation", None, FALSE, <<Unwrap(validate_update_error(up))>>)
    ELSE IF ~Prepares(update_sql(up))
    THEN Outcome("Db", None, FALSE, <<>>, rows, seq, last_rowid, now)
    ELSE LET rows_affected == IF id \in DOMAIN rows THEN 1 ELSE 0
             updated == IF id \in DOMAIN rows
                        THEN [rows EXCEPT ![id] = UpdateRow(rows[id], up, now)]
                        ELSE rows
         IN  IF rows_affected = 0
             THEN Outcome("Ok", None, FALSE, <<>>, rows, seq, last_rowid, now)
             ELSE Outcome("Ok", fetch_by_id(updated, id), FALSE, <<>>,
                          updated, seq, last_rowid, now)

\* SqliteTodoRepo::delete
SqliteTodoRepo_delete(id) ==
    LET rows_affected == IF id \in DOMAIN rows THEN 1 ELSE 0
    IN  Outcome("Ok", None, rows_affected > 0, <<>>,
                DeleteRow(rows, id), seq, last_rowid, clock)

----------------------------------------------------------------------------
(* ListQuery and SqliteTodoRepo::list: models/todo.rs, repository/sqlite.rs *)

DefaultLimit == 50
MaxLimit == 200
MinLimit == 1

IntMin(a, b) == IF a <= b THEN a ELSE b
IntMax(a, b) == IF a >= b THEN a ELSE b

\* limit_or_default without .max(1)
limit_or_default_NoFloor(q) ==
    LET lim == IF IsSome(q.limit) THEN Unwrap(q.limit) ELSE DefaultLimit
    IN  IntMin(lim, MaxLimit)

\* ListQuery::limit_or_default: self.limit.unwrap_or(50).min(200).max(1)
limit_or_default(q) ==
    LET lim == IF IsSome(q.limit) THEN Unwrap(q.limit) ELSE DefaultLimit
    IN  IntMax(IntMin(lim, MaxLimit), MinLimit)

\* ListQuery::offset_or_default: self.offset.unwrap_or(0).max(0)
offset_or_default(q) ==
    IntMax(IF IsSome(q.offset) THEN Unwrap(q.offset) ELSE 0, 0)

\* WHERE completed = ? (only when the filter is Some)
Matching(tbl, q) ==
    {i \in DOMAIN tbl : IsSome(q.completed) => tbl[i].completed = Unwrap(q.completed)}

\* ORDER BY created_at DESC: every arrangement of the matching rows with
\* created_at non-increasing; the statement names no second sort key, so rows
\* of equal created_at come in an order the engine chooses
RECURSIVE SortedDesc(_, _)
SortedDesc(tbl, ids) ==
    IF ids = {} THEN {<<>>}
    ELSE UNION {{<<tbl[i]>> \o s : s \in SortedDesc(tbl, ids \ {i})} :
                  i \in {j \in ids :
                           \A k \in ids : tbl[j].created_at >= tbl[k].created_at}}

Orderings(tbl, q) == SortedDesc(tbl, Matching(tbl, q))

\* LIMIT ? OFFSET ? with the two bound values exchanged
Window_Swapped(s, limit, offset) == SubSeq(s, limit + 1, IntMin(limit + offset, Len(s)))

\* LIMIT ? OFFSET ?
Window(s, limit, offset) == SubSeq(s, offset + 1, IntMin(offset + limit, Len(s)))

\* SqliteTodoRepo::list: the results the statement may return
SqliteTodoRepo_list(tbl, q) ==
    {Window(s, limit_or_default(q), offset_or_default(q)) : s \in Orderings(tbl, q)}

----------------------------------------------------------------------------
(* The service: services/todo_service.rs *)

\* TodoService::create passing its input on as given
TrimNew_NoTrim(new) == new

\* TodoService::create trimming the title only
TrimNew_TitleOnly(new) ==
    [title       |-> Trim(new.title),
     description |-> new.description,
     due_date    |-> new.due_date]

\* TodoService::create, lines 23-27: trim the title and a present description
TrimNew(new) ==
    [title       |-> Trim(new.title),
     description |-> IF IsSome(new.description)
                     THEN Some(Trim(Unwrap(new.description))) ELSE None,
     due_date    |-> new.due_date]

\* TodoService::update, lines 43-50: trim a present title and a present,
\* non-null description
TrimUpdate(up) ==
    [title       |-> IF IsSome(up.title) THEN Some(Trim(Unwrap(up.title))) ELSE None,
     description |-> IF IsSome(up.description) /\ IsSome(Unwrap(up.description))
                     THEN Some(Some(Trim(Unwrap(Unwrap(up.description)))))
                     ELSE up.description,
     completed   |-> up.completed,
     due_date    |-> up.due_date]

\* match repo result { Some(t) => Ok(t), None => Err(AppError::NotFound) }
OrNotFound(r) ==
    IF r.status = "Ok" /\ ~IsSome(r.ret) THEN [r EXCEPT !.status = "NotFound"] ELSE r

\* TodoService::create
TodoService_create(new, now) == SqliteTodoRepo_create(TrimNew(new), now)

\* TodoService::get_by_id passing the repository's empty result on
TodoService_get_by_id_Unmapped(id) == SqliteTodoRepo_get_by_id(id)

\* TodoService::get_by_id
TodoService_get_by_id(id) == OrNotFound(SqliteTodoRepo_get_by_id(id))

\* TodoService::update
TodoService_update(id, up, now) == OrNotFound(SqliteTodoRepo_update(id, TrimUpdate(up), now))

\* TodoService::delete: if deleted { Ok(()) } else { Err(AppError::NotFound) }
TodoService_delete(id) ==
    LET r == SqliteTodoRepo_delete(id)
    IN  IF r.status = "Ok" /\ ~r.flag THEN [r EXCEPT !.status = "NotFound"] ELSE r

----------------------------------------------------------------------------
(* Calls *)

\* the readings now_utc() may return: the clock does not run backwards
Now == clock..IntMin(clock + 1, MaxClock)

\* ids a caller may name: every id the table can assign, and one it never does
Ids == 1..(MaxId + 1)

NoCall ==
    [op |-> "none", layer |-> "none", id |-> 0, arg |-> None,
     status |-> "none", ret |-> None, flag |-> FALSE, items |-> <<>>]

\* the call returns outcome r: the store takes r's state, call records it
Commit(op, layer, id, arg, r) ==
    /\ rows' = r.rows
    /\ seq' = r.seq
    /\ last_rowid' = r.last_rowid
    /\ clock' = r.clock
    /\ issued' = IF op = "create" /\ r.status = "Ok"
                 THEN issued \cup {Unwrap(r.ret).id}
                 ELSE IF op = "create_todo" /\ r.status = "Ok"
                 THEN issued \cup {Unwrap(r.ret).body.id}
                 ELSE issued
    /\ call' = [op |-> op, layer |-> layer, id |-> id, arg |-> Some(arg),
                status |-> r.status, ret |-> r.ret, flag |-> r.flag,
                items |-> r.items]
    /\ UNCHANGED <<pool, creates, user_vars>>

\* now is the reading of now_utc() the call takes, when it takes one
RepoCreate(new, now) ==
    LET r == SqliteTodoRepo_create(new, now)
    IN  r.seq <= MaxId /\ Commit("create", "repo", 0, new, r)

ServiceCreate(new, now) ==
    LET r == TodoService_create(new, now)
    IN  r.seq <= MaxId /\ Commit("create", "service", 0, new, r)

RepoGet(id) == Commit("get", "repo", id, id, SqliteTodoRepo_get_by_id(id))

ServiceGet(id) == Commit("get", "service", id, id, TodoService_get_by_id(id))

RepoUpdate(id, up, now) ==
    Commit("update", "repo", id, up, SqliteTodoRepo_update(id, up, now))

ServiceUpdate(id, up, now) ==
    Commit("update", "service", id, up, TodoService_update(id, up, now))

RepoDelete(id) == Commit("delete", "repo", id, id, SqliteTodoRepo_delete(id))

ServiceDelete(id) == Commit("delete", "service", id, id, TodoService_delete(id))

\* TodoService::list passes the query to SqliteTodoRepo::list
List(q) ==
    \E items \in SqliteTodoRepo_list(rows, q) :
        Commit("list", "service", 0, q, Unchanged("Ok", None, FALSE, items))

\* ListQuery::limit_or_default and ListQuery::offset_or_default applied to q
Paging(q) ==
    Commit("paging", "model", 0, q,
           Unchanged("Ok", Some([limit  |-> limit_or_default(q),
                                 offset |-> offset_or_default(q)]), FALSE, <<>>))

\* the workers of the User example's HttpServer, which share the UserStore
Workers == {"w1", "w2"}

\* a worker that has no request
NoHandler ==
    [pc |-> "idle", req |-> None, id |-> 0, response |-> None]

\* the connections of the pool
Conns == 1..MaxConns

\* the callers that may be inside SqliteTodoRepo::create at the same time
Callers == {"a", "b"}

\* a caller that is not inside create
NoCreate ==
    [pc |-> "idle", new |-> None, now |-> 0, id |-> 0, inserted |-> 0,
     status |-> "none", ret |-> None]

Init ==
    /\ rows = << >>
    /\ seq = 0
    /\ last_rowid = 0
    /\ clock = 0
    /\ issued = {}
    /\ call = NoCall
    /\ pool = [c \in Conns |-> 0]
    /\ creates = [t \in Callers |-> NoCreate]
    /\ users = << >>
    /\ lock = None
    /\ handlers = [w \in Workers |-> NoHandler]

----------------------------------------------------------------------------
(* Payloads *)

Blank == Rep(" ", 1)
TitleA == Rep("a", 1)
DescD == Rep("d", 1)
Padded(s) == Blank \o s \o Blank

OptionOf(S) == {None} \cup {Some(v) : v \in S}

----------------------------------------------------------------------------
(* Spec: create, get and delete through both layers, over titles and       *)
(* descriptions on both sides of the validation limits                     *)

ValidNewTodos ==
    [title : {Padded(TitleA), Padded(Rep("x", MaxTitleLen))},
     description : OptionOf({Padded(DescD)}), due_date : {None}]
    \cup {[title |-> Padded(TitleA), description |-> None, due_date |-> Some(1)]}
InvalidNewTodos ==
    [title : {<<>>, Blank, Rep("x", MaxTitleLen + 1)},
     description : {None}, due_date : {None}]
    \cup {[title |-> Padded(TitleA),
           description |-> Some(Rep("x", MaxDescLen + 1)), due_date |-> None]}
NewTodos == ValidNewTodos \cup InvalidNewTodos

Next ==
    \/ \E new \in NewTodos, now \in Now : RepoCreate(new, now)
    \/ \E new \in NewTodos, now \in Now : ServiceCreate(new, now)
    \/ \E id \in Ids : RepoGet(id)
    \/ \E id \in Ids : ServiceGet(id)
    \/ \E id \in Ids : RepoDelete(id)
    \/ \E id \in Ids : ServiceDelete(id)

Spec == Init /\ [][Next]_vars

----------------------------------------------------------------------------
(* SpecUpdate: one Todo payload, created through either layer, and updates  *)
(* in which the two nullable fields take each of their states               *)
(* independently, on a table that holds at most MaxLive rows at a time      *)

UpdateNewTodos ==
    {[title |-> Padded(TitleA), description |-> Some(DescD), due_date |-> None]}

\* updates that pass validation: every combination of the two nullable
\* fields, each plain field on its own, and every field at once
ValidUpdates ==
    [title       : {None},
     description : OptionOf(OptionOf({DescD})),
     completed   : {None},
     due_date    : OptionOf(OptionOf({1}))]
    \cup
    [title       : {None},
     description : {None},
     completed   : {Some(TRUE), Some(FALSE)},
     due_date    : {None}]
    \cup
    {[title |-> Some(Padded(TitleA)), description |-> None,
      completed |-> None, due_date |-> None],
     [title |-> Some(Padded(TitleA)), description |-> Some(Some(DescD)),
      completed |-> Some(TRUE), due_date |-> Some(Some(1))]}

\* updates that validation rejects: a blank title, a title too long, a
\* description too long, both at once; and a padded description of
\* MaxDescLen characters, which is too long as given and not when trimmed
InvalidUpdates ==
    {[title |-> Some(Blank), description |-> Some(Some(DescD)),
      completed |-> Some(TRUE), due_date |-> None],
     [title |-> None, description |-> Some(Some(Rep("x", MaxDescLen + 1))),
      completed |-> None, due_date |-> Some(None)],
     [title |-> Some(Padded(Rep("x", MaxTitleLen + 1))), description |-> Some(None),
      completed |-> None, due_date |-> None],
     [title |-> Some(Blank), description |-> Some(Some(Rep("x", MaxDescLen + 1))),
      completed |-> None, due_date |-> None],
     [title |-> Some(Padded(Rep("x", MaxTitleLen))),
      description |-> Some(Some(Padded(Rep("x", MaxDescLen)))),
      completed |-> None, due_date |-> None]}

UpdateTodos == ValidUpdates \cup InvalidUpdates

\* a padded description, given to the service, which strips it
ServiceUpdateTodos ==
    UpdateTodos \cup
    {[title |-> None, description |-> Some(Some(Padded(DescD))),
      completed |-> None, due_date |-> None]}

HasRoom == Cardinality(DOMAIN rows) < MaxLive

NextUpdate ==
    \/ \E new \in UpdateNewTodos, now \in Now : HasRoom /\ RepoCreate(new, now)
    \/ \E new \in UpdateNewTodos, now \in Now : HasRoom /\ ServiceCreate(new, now)
    \/ \E id \in Ids, up \in UpdateTodos, now \in Now : RepoUpdate(id, up, now)
    \/ \E id \in Ids, up \in ServiceUpdateTodos, now \in Now : ServiceUpdate(id, up, now)
    \/ \E id \in Ids : RepoDelete(id)
    \/ \E id \in Ids : ServiceDelete(id)

SpecUpdate == Init /\ [][NextUpdate]_vars

----------------------------------------------------------------------------
(* Vocabulary of the properties *)

\* t is s without its leading and trailing whitespace
IsTrimOf(t, s) ==
    /\ \E i, j \in 0..Len(s) :
          /\ i + j <= Len(s)
          /\ t = SubSeq(s, i + 1, Len(s) - j)
          /\ \A k \in 1..i : IsWhiteSpace(s[k].ch)
          /\ \A k \in (Len(s) - j + 1)..Len(s) : IsWhiteSpace(s[k].ch)
    /\ t # <<>> => ~IsWhiteSpace(t[1].ch) /\ ~IsWhiteSpace(t[Len(t)].ch)

\* the number of characters of s between its leading and trailing whitespace
TrimmedLen(s) == CharCount(Trim(s))

\* the NewTodo payloads create must accept
AcceptableNew(new) ==
    /\ TrimmedLen(new.title) \in 1..MaxTitleLen
    /\ IsSome(new.description) => CharCount(Unwrap(new.description)) <= MaxDescLen

----------------------------------------------------------------------------
(* Properties of create, get and delete (Spec) *)

\* C3: a create whose trimmed title has 1 to 200 characters and whose
\* description, if present, has at most 2000 succeeds; the Todo it returns is
\* not completed, has created_at = updated_at, and has an id that no earlier
\* create returned, whether or not that Todo has since been deleted.
C3_CreateAccepted ==
    [][(call'.op = "create" /\ AcceptableNew(Unwrap(call'.arg)))
        => /\ call'.status = "Ok"
           /\ IsSome(call'.ret)
           /\ Unwrap(call'.ret).completed = FALSE
           /\ Unwrap(call'.ret).created_at = Unwrap(call'.ret).updated_at
           /\ Unwrap(call'.ret).id \notin issued]_vars

\* C3 witness: a create with a title of exactly 200 characters (after
\* trimming) has succeeded after the Todo of an earlier id was deleted
C3_Witness ==
    /\ call.op = "create" /\ call.status = "Ok"
    /\ TrimmedLen(Unwrap(call.arg).title) = MaxTitleLen
    /\ \E id \in issued : id \notin DOMAIN rows /\ id # Unwrap(call.ret).id

\* C4: a create whose trimmed title is empty or longer than 200 characters
\* fails with a Validation error and leaves the store as it was, so that a
\* list of every Todo returns what it returned before the call.
C4_CreateRejected ==
    [][(call'.op = "create" /\ TrimmedLen(Unwrap(call'.arg).title) \notin 1..MaxTitleLen)
        => /\ call'.status = "Validation"
           /\ rows' = rows
           /\ LET q == [limit |-> None, offset |-> None, completed |-> None]
              IN  SqliteTodoRepo_list(rows', q) = SqliteTodoRepo_list(rows, q)]_vars

\* C4 witness: a create with a blank title was rejected while the table held a
\* row
C4_Witness ==
    /\ call.op = "create" /\ call.status = "Validation"
    /\ Unwrap(call.arg).title = Blank
    /\ DOMAIN rows # {}

\* C5: what Service.create stores and returns is the title without its leading
\* and trailing whitespace and, when a description is given, the description
\* without its leading and trailing whitespace; trimming these again changes
\* nothing.
C5_ServiceCreateTrims ==
    (call.op = "create" /\ call.layer = "service" /\ call.status = "Ok")
    => LET new  == Unwrap(call.arg)
           todo == Unwrap(call.ret)
       IN  /\ todo.id \in DOMAIN rows /\ rows[todo.id] = todo
           /\ IsTrimOf(todo.title, new.title)
           /\ Trim(todo.title) = todo.title
           /\ IsSome(todo.description) = IsSome(new.description)
           /\ IsSome(new.description)
                => /\ IsTrimOf(Unwrap(todo.description), Unwrap(new.description))
                   /\ Trim(Unwrap(todo.description)) = Unwrap(todo.description)

\* C5 witness: Service.create of a padded title and a padded description
\* returned both without the padding
C5_Witness ==
    /\ call.op = "create" /\ call.layer = "service" /\ call.status = "Ok"
    /\ Unwrap(call.arg).title = Padded(TitleA)
    /\ Unwrap(call.arg).description = Some(Padded(DescD))
    /\ Unwrap(call.ret).title = TitleA
    /\ Unwrap(call.ret).description = Some(DescD)

\* C7: delete of an id that has a row succeeds (the repository reports true)
\* and removes that row and no other; delete of an id without a row reports
\* NotFound from the service (false from the repository) and changes no row;
\* an id whose row is gone never has a row again, and get_by_id on it
\* reports NotFound from the service (nothing from the repository).
C7_Delete ==
    [][/\ call'.op = "delete" =>
            IF call'.id \in DOMAIN rows
            THEN /\ call'.status = "Ok"
                 /\ call'.layer = "repo" => call'.flag
                 /\ DOMAIN rows' = DOMAIN rows \ {call'.id}
                 /\ \A i \in DOMAIN rows' : rows'[i] = rows[i]
            ELSE /\ call'.layer = "service" => call'.status = "NotFound"
                 /\ call'.layer = "repo" => call'.status = "Ok" /\ ~call'.flag
                 /\ rows' = rows
       /\ \A id \in issued \ DOMAIN rows :
            /\ id \notin DOMAIN rows'
            /\ (call'.op = "get" /\ call'.id = id) =>
                 /\ call'.layer = "service" => call'.status = "NotFound"
                 /\ call'.layer = "repo" => call'.status = "Ok" /\ call'.ret = None]_vars

\* C7 witness: after a delete and a later create, Service.get_by_id on the
\* deleted id reported NotFound
C7_Witness ==
    /\ call.op = "get" /\ call.layer = "service" /\ call.status = "NotFound"
    /\ call.id \in issued /\ call.id \notin DOMAIN rows
    /\ \E i \in DOMAIN rows : i > call.id

\* C8: get_by_id changes no row; on an id without a row the repository
\* returns Ok with nothing and the service the NotFound error; on an id with
\* a row both return that row.
C8_GetById ==
    [][call'.op = "get" =>
         /\ rows' = rows
         /\ call'.id \notin DOMAIN rows =>
              /\ call'.layer = "repo" => call'.status = "Ok" /\ call'.ret = None
              /\ call'.layer = "service" => call'.status = "NotFound"
         /\ call'.id \in DOMAIN rows =>
              call'.status = "Ok" /\ call'.ret = Some(rows[call'.id])]_vars

\* C8 witness: Service.get_by_id reported NotFound for an id without a row
\* while the table held another row
C8_Witness ==
    /\ call.op = "get" /\ call.layer = "service" /\ call.status = "NotFound"
    /\ call.id \notin DOMAIN rows /\ DOMAIN rows # {}

----------------------------------------------------------------------------
(* Properties of update (SpecUpdate) *)

\* the update payloads validation rejects; the service validates what it has
\* trimmed
UpdateRejected(layer, up) ==
    \/ /\ IsSome(up.title)
       /\ TrimmedLen(Unwrap(up.title)) \notin 1..MaxTitleLen
    \/ /\ IsSome(up.description)
       /\ IsSome(Unwrap(up.description))
       /\ LET d == Unwrap(Unwrap(up.description))
          IN  (IF layer = "service" THEN TrimmedLen(d) ELSE CharCount(d)) > MaxDescLen

\* v is what layer writes for the string s it was given
Written(layer, v, s) == IF layer = "service" THEN IsTrimOf(v, s) ELSE v = s

\* C1: on an existing id, an update whose payload passes validation succeeds,
\* leaves an absent field as it was, sets a present-and-null description or
\* due_date to null, and sets a present field to the value given (trimmed of
\* leading and trailing whitespace by Service.update), through Service.update
\* and Repository.update alike.
C1_TriState ==
    [][(call'.op = "update" /\ call'.id \in DOMAIN rows
          /\ ~UpdateRejected(call'.layer, Unwrap(call'.arg)))
        => LET up    == Unwrap(call'.arg)
               layer == call'.layer
               old   == rows[call'.id]
               new   == rows'[call'.id]
           IN  /\ call'.status = "Ok"
               /\ call'.ret = Some(new)
               /\ up.title = None => new.title = old.title
               /\ IsSome(up.title) => Written(layer, new.title, Unwrap(up.title))
               /\ up.description = None => new.description = old.description
               /\ up.description = Some(None) => new.description = None
               /\ (IsSome(up.description) /\ IsSome(Unwrap(up.description)))
                    => /\ IsSome(new.description)
                       /\ Written(layer, Unwrap(new.description),
                                  Unwrap(Unwrap(up.description)))
               /\ up.completed = None => new.completed = old.completed
               /\ IsSome(up.completed) => new.completed = Unwrap(up.completed)
               /\ up.due_date = None => new.due_date = old.due_date
               /\ up.due_date = Some(None) => new.due_date = None
               /\ (IsSome(up.due_date) /\ IsSome(Unwrap(up.due_date)))
                    => new.due_date = Unwrap(up.due_date)]_vars

\* C6: an update whose payload passes validation, on an id that has no row,
\* returns NotFound from the service (Ok with nothing from the repository) and
\* changes no row.
C6_UpdateMissing ==
    [][(call'.op = "update" /\ call'.id \notin DOMAIN rows
          /\ ~UpdateRejected(call'.layer, Unwrap(call'.arg)))
        => /\ rows' = rows
           /\ call'.ret = None
           /\ call'.status = IF call'.layer = "service" THEN "NotFound" ELSE "Ok"]_vars

----------------------------------------------------------------------------
(* SpecList: Todos created at the same or at later instants, some of them   *)
(* completed, list queries that page through them, and paging parameters   *)
(* on both sides of the limits                                              *)

ListNewTodos == {[title |-> TitleA, description |-> None, due_date |-> None]}

ListUpdates ==
    {[title |-> None, description |-> None, completed |-> Some(TRUE), due_date |-> None]}

ListQueries ==
    [limit     : OptionOf({0, 1, 2}),
     offset    : OptionOf({-10, 0, 1, 2}),
     completed : OptionOf(BOOLEAN)]

PagingQueries ==
    [limit     : OptionOf({-1, 0, 1, 2, MaxLimit, MaxLimit + 1, 500}),
     offset    : OptionOf({-10, 0, 1, 2, 5}),
     completed : {None}]

NextList ==
    \/ \E new \in ListNewTodos, now \in Now : RepoCreate(new, now)
    \/ \E id \in Ids, up \in ListUpdates : RepoUpdate(id, up, clock)
    \/ \E id \in Ids : RepoDelete(id)
    \/ \E q \in ListQueries : List(q)
    \/ \E q \in PagingQueries : Paging(q)

SpecList == Init /\ [][NextList]_vars

----------------------------------------------------------------------------
(* Properties of list and of the paging defaults (SpecList) *)

\* the stored rows that pass the completed filter of q
MatchingRows(q) ==
    {rows[i] : i \in {j \in DOMAIN rows :
                        IsSome(q.completed) => rows[j].completed = Unwrap(q.completed)}}

\* the sequences that hold every element of S once
Arrangements(S) ==
    {f \in [1..Cardinality(S) -> S] : \A a, b \in DOMAIN f : a # b => f[a] # f[b]}

\* newest first, with no rule for equal created_at
ByCreated(full) ==
    \A a, b \in DOMAIN full : a < b => full[a].created_at >= full[b].created_at

\* newest first, and the larger id first among equal created_at
ByCreatedThenId(full) ==
    \A a, b \in DOMAIN full :
        a < b => \/ full[a].created_at > full[b].created_at
                 \/ /\ full[a].created_at = full[b].created_at
                    /\ full[a].id > full[b].id

\* items is full without its first offset rows, cut to at most limit rows
IsPageOf(items, full, limit, offset) ==
    LET m == IntMax(0, IntMin(limit, Len(full) - offset))
    IN  items = [k \in 1..m |-> full[offset + k]]

\* C9 as stated: list returns the Todos that match the filter, newest first
\* and the larger id first among equal created_at, without the first offset
\* rows and cut to limit rows.
C9_AsStated ==
    call.op = "list"
    => LET q == Unwrap(call.arg)
       IN  \E full \in Arrangements(MatchingRows(q)) :
              /\ ByCreatedThenId(full)
              /\ IsPageOf(call.items, full, limit_or_default(q), offset_or_default(q))

\* C9, amended: list returns the Todos that match the filter (all of them
\* when it is absent), newest first, without the first offset rows and cut to
\* limit rows; the order among Todos of equal created_at is not fixed, and
\* the query has one possible result when no two matching Todos have the same
\* created_at.
C9_List ==
    call.op = "list"
    => LET q == Unwrap(call.arg)
       IN  /\ \E full \in Arrangements(MatchingRows(q)) :
                 /\ ByCreated(full)
                 /\ IsPageOf(call.items, full, limit_or_default(q), offset_or_default(q))
           /\ (\A r1, r2 \in MatchingRows(q) : r1 # r2 => r1.created_at # r2.created_at)
                => SqliteTodoRepo_list(rows, q) = {call.items}

\* C9 witness: with an older and a newer Todo stored, list with limit 1 and
\* offset 1 returned the older one alone
C9_Witness ==
    /\ call.op = "list"
    /\ Unwrap(call.arg) = [limit |-> Some(1), offset |-> Some(1), completed |-> None]
    /\ \E i, j \in DOMAIN rows :
          /\ rows[i].created_at < rows[j].created_at
          /\ call.items = <<rows[i]>>

\* C10: limit_or_default is 50 for an absent limit and otherwise the limit
\* clamped into [1, 200]; offset_or_default is 0 for an absent offset and
\* otherwise max(offset, 0); so the limit bound is in 1..200 and the offset
\* bound is not negative.
C10_Paging ==
    call.op = "paging"
    => LET q == Unwrap(call.arg)
           b == Unwrap(call.ret)
       IN  /\ q.limit = None => b.limit = DefaultLimit
           /\ IsSome(q.limit) =>
                b.limit = (IF Unwrap(q.limit) < MinLimit THEN MinLimit
                           ELSE IF Unwrap(q.limit) > MaxLimit THEN MaxLimit
                           ELSE Unwrap(q.limit))
           /\ q.offset = None => b.offset = 0
           /\ IsSome(q.offset) =>
                b.offset = (IF Unwrap(q.offset) < 0 THEN 0 ELSE Unwrap(q.offset))
           /\ b.limit \in MinLimit..MaxLimit
           /\ b.offset >= 0

\* C10 witness: limit 500 was clamped to 200 and offset -10 to 0
C10_Witness ==
    /\ call.op = "paging"
    /\ Unwrap(call.arg).limit = Some(500) /\ Unwrap(call.ret).limit = MaxLimit
    /\ Unwrap(call.arg).offset = Some(-10) /\ Unwrap(call.ret).offset = 0

----------------------------------------------------------------------------
(* The wire form of UpdateTodo: derive(Serialize, Deserialize), serde_json  *)
(*                                                                          *)
(* A JSON object is a record of members; a member is <<>> when its key is   *)
(* absent and <<v>> when it is present with the JSON value v.               *)

JsonNull == <<"null">>
JsonString(s) == <<"string", s>>
JsonBool(b) == <<"bool", b>>
\* the string serde writes for an OffsetDateTime
JsonTime(t) == <<"datetime", t>>

\* String, bool, OffsetDateTime read from a JSON value
FromJsonValue(member) == Unwrap(member)[2]

\* Option<String>::serialize: None is null, Some(v) is v's own form
SerializeOptString(o) == IF IsSome(o) THEN JsonString(Unwrap(o)) ELSE JsonNull

\* Option<bool>::serialize
SerializeOptBool(o) == IF IsSome(o) THEN JsonBool(Unwrap(o)) ELSE JsonNull

\* Option<OffsetDateTime>::serialize
SerializeOptTime(o) == IF IsSome(o) THEN JsonTime(Unwrap(o)) ELSE JsonNull

\* Option<Option<String>>::serialize: None is null, Some(inner) is the inner
\* Option's own form
SerializeOptOptString(o) == IF IsSome(o) THEN SerializeOptString(Unwrap(o)) ELSE JsonNull

\* Option<Option<OffsetDateTime>>::serialize
SerializeOptOptTime(o) == IF IsSome(o) THEN SerializeOptTime(Unwrap(o)) ELSE JsonNull

\* Option<T>::deserialize: null is None, any other value is Some of the value
\* read as T; an absent member is None too (the derive's missing-field rule
\* for Option)
DeserializeOpt(member) ==
    IF member = <<>> \/ Unwrap(member) = JsonNull THEN None
    ELSE Some(FromJsonValue(member))

\* Option<Option<T>>::deserialize: the same rule for the outer Option, and a
\* value that is not null is read as the inner Option<T>
DeserializeOptOpt(member) ==
    IF member = <<>> \/ Unwrap(member) = JsonNull THEN None
    ELSE Some(DeserializeOpt(member))

\* serde_json::to_string(&UpdateTodo): every field is written
Serialize(up) ==
    [title       |-> Some(SerializeOptString(up.title)),
     description |-> Some(SerializeOptOptString(up.description)),
     completed   |-> Some(SerializeOptBool(up.completed)),
     due_date    |-> Some(SerializeOptOptTime(up.due_date))]

\* serde_json::from_str::<UpdateTodo>
Deserialize(body) ==
    [title       |-> DeserializeOpt(body.title),
     description |-> DeserializeOptOpt(body.description),
     completed   |-> DeserializeOpt(body.completed),
     due_date    |-> DeserializeOptOpt(body.due_date)]

\* a request body is decoded
Decode(body) ==
    Commit("decode", "wire", 0, body, Unchanged("Ok", Some(Deserialize(body)), FALSE, <<>>))

\* an UpdateTodo is serialized and read back
RoundTrip(up) ==
    Commit("roundtrip", "wire", 0, up,
           Unchanged("Ok", Some(Deserialize(Serialize(up))), FALSE, <<>>))

----------------------------------------------------------------------------
(* SpecWire: request bodies with each key absent, null or set, and payloads *)
(* with each field in each of its states                                    *)

MemberOf(S) == {<<>>, Some(JsonNull)} \cup {Some(v) : v \in S}

JsonBodies ==
    [title       : MemberOf({JsonString(TitleA)}),
     description : MemberOf({JsonString(DescD), JsonString(Padded(DescD))}),
     completed   : MemberOf({JsonBool(TRUE), JsonBool(FALSE)}),
     due_date    : MemberOf({JsonTime(1)})]

WireUpdates ==
    [title       : OptionOf({TitleA}),
     description : OptionOf(OptionOf({DescD})),
     completed   : OptionOf(BOOLEAN),
     due_date    : OptionOf(OptionOf({1}))]

NextWire ==
    \/ \E body \in JsonBodies : Decode(body)
    \/ \E up \in WireUpdates : RoundTrip(up)

SpecWire == Init /\ [][NextWire]_vars

\* C2: decoding a body gives three different states for a nullable field:
\* unset for an absent key, set-null for a key with null, set-value for a
\* key with a value; and an UpdateTodo that is serialized and read back is
\* the same UpdateTodo.
C2_WireKeepsStates ==
    /\ call.op = "decode" =>
         \A f \in {"description", "due_date"} :
            LET member == Unwrap(call.arg)[f]
                field  == Unwrap(call.ret)[f]
            IN  /\ member = <<>> => field = None
                /\ member = Some(JsonNull) => field = Some(None)
                /\ (member # <<>> /\ member # Some(JsonNull))
                     => field = Some(Some(FromJsonValue(member)))
    /\ call.op = "roundtrip" => Unwrap(call.ret) = Unwrap(call.arg)

----------------------------------------------------------------------------
(* AppError and its HTTP response: error.rs                                 *)
(*                                                                          *)
(* An AppError is its variant (kind) and what the variant carries (detail): *)
(* the message of Validation, Conflict and BadRequest, the sqlx::Error of   *)
(* Db, the anyhow::Error of Internal, nothing for NotFound.                 *)

\* ResponseError::status_code with Validation mapped to 400
status_code_Validation400(err) ==
    CASE err.kind = "NotFound"   -> 404
      [] err.kind = "Validation" -> 400
      [] err.kind = "Conflict"   -> 409
      [] err.kind = "BadRequest" -> 400
      [] err.kind = "Db"         -> 500
      [] err.kind = "Internal"   -> 500

\* ResponseError::status_code
status_code(err) ==
    CASE err.kind = "NotFound"   -> 404
      [] err.kind = "Validation" -> 422
      [] err.kind = "Conflict"   -> 409
      [] err.kind = "BadRequest" -> 400
      [] err.kind = "Db"         -> 500
      [] err.kind = "Internal"   -> 500

\* Display with the source error written into the message of Db and Internal
to_string_WithSource(err) ==
    CASE err.kind = "NotFound"   -> <<"resource not found">>
      [] err.kind = "Validation" -> <<"validation error: ", err.detail>>
      [] err.kind = "Conflict"   -> <<"conflict: ", err.detail>>
      [] err.kind = "BadRequest" -> <<"bad request: ", err.detail>>
      [] err.kind = "Db"         -> <<"database error: ", err.detail>>
      [] err.kind = "Internal"   -> <<"internal server error: ", err.detail>>

\* Display as derived by thiserror from the #[error("...")] attributes: the
\* text, with {0} replaced by what the variant carries
to_string(err) ==
    CASE err.kind = "NotFound"   -> <<"resource not found">>
      [] err.kind = "Validation" -> <<"validation error: ", err.detail>>
      [] err.kind = "Conflict"   -> <<"conflict: ", err.detail>>
      [] err.kind = "BadRequest" -> <<"bad request: ", err.detail>>
      [] err.kind = "Db"         -> <<"database error">>
      [] err.kind = "Internal"   -> <<"internal server error">>

\* ResponseError::error_response: HttpResponse::build(status).json(ErrorBody)
error_response(err) ==
    [status |-> status_code(err),
     body   |-> [code |-> status_code(err), message |-> to_string(err)]]

\* a handler returns Err(err) and actix answers with err.error_response()
ErrorResponse(err) ==
    Commit("error_response", "http", 0, err,
           Unchanged(err.kind, Some(error_response(err)), FALSE, <<>>))

\* two requests fail with e1 and with e2; items holds the two responses
ErrorResponses(e1, e2) ==
    Commit("error_responses", "http", 0, <<e1, e2>>,
           Unchanged(e1.kind, None, FALSE,
                     <<error_response(e1), error_response(e2)>>))

----------------------------------------------------------------------------
(* SpecError: every variant of AppError, with several values of what it     *)
(* carries                                                                  *)

Details ==
    {"title must be 1..=200 characters", "duplicate", "bad", "boom", "oops",
     "near \",\": syntax error", "unable to open database file",
     "no such table: todos", "pool timed out", "/var/lib/todos.db is locked"}

AppErrors ==
    {[kind |-> "NotFound", detail |-> ""]}
    \cup [kind : {"Validation", "Conflict", "BadRequest", "Db", "Internal"},
          detail : Details]

NextError ==
    \/ \E err \in AppErrors : ErrorResponse(err)
    \/ \E e1, e2 \in AppErrors : e1.kind = e2.kind /\ ErrorResponses(e1, e2)

SpecError == Init /\ [][NextError]_vars

\* the HTTP status the specification gives each error kind
StatusOfKind ==
    [k \in {"NotFound", "Validation", "BadRequest", "Conflict", "Db", "Internal"} |->
        CASE k = "NotFound"   -> 404
          [] k = "Validation" -> 422
          [] k = "BadRequest" -> 400
          [] k = "Conflict"   -> 409
          [] k \in {"Db", "Internal"} -> 500]

\* C11: every error kind maps to one fixed HTTP status (NotFound 404,
\* Validation 422, BadRequest 400, Conflict 409, Db and Internal 500), and the
\* code field of the JSON error body equals the HTTP status of the response.
C11_ErrorStatus ==
    call.op = "error_response"
    => LET err  == Unwrap(call.arg)
           resp == Unwrap(call.ret)
       IN  /\ resp.status = StatusOfKind[err.kind]
           /\ resp.body.code = resp.status

\* C11 witness: a Validation error was answered with 422 and code 422
C11_Witness ==
    /\ call.op = "error_response"
    /\ Unwrap(call.arg).kind = "Validation"
    /\ Unwrap(call.ret).status = 422
    /\ Unwrap(call.ret).body.code = 422

\* C16: two Db errors, and two Internal errors, that differ in their
\* underlying detail get the same HTTP status and the same body.
C16_NoDetailExposed ==
    (call.op = "error_responses" /\ call.status \in {"Db", "Internal"})
    => call.items[1] = call.items[2]

\* C16 witness: two Db errors with different detail were answered
C16_Witness ==
    /\ call.op = "error_responses" /\ call.status = "Db"
    /\ Unwrap(call.arg)[1].detail # Unwrap(call.arg)[2].detail
    /\ call.items[1].status = 500

----------------------------------------------------------------------------
(* The HTTP surface: routes/mod.rs, routes/todos.rs                         *)
(*                                                                          *)
(* A request is its method, its path as the sequence of its segments, and   *)
(* its JSON body; a response is its status and its body.                    *)

\* routes::configure with health registered beside the scope, at /health
Route_HealthAtRoot(req) ==
    LET m == req.method
        p == req.path
    IN  IF m = "GET" /\ p = <<"health">> THEN "health"
        ELSE IF Len(p) < 3 \/ SubSeq(p, 1, 2) # <<"api", "v1">> \/ p[3] # "todos" THEN "none"
        ELSE IF Len(p) = 3 /\ m = "POST" THEN "create_todo"
        ELSE IF Len(p) = 3 /\ m = "GET" THEN "list_todos"
        ELSE IF Len(p) = 4 /\ m = "GET" THEN "get_todo"
        ELSE IF Len(p) = 4 /\ m = "PUT" THEN "update_todo"
        ELSE IF Len(p) = 4 /\ m = "DELETE" THEN "delete_todo"
        ELSE "none"

\* routes::configure: web::scope("/api/v1") holds health (#[get("/health")])
\* and todos::configure, whose scope("") holds the five Todo handlers; the
\* handler that serves req, "none" when no resource matches
Route(req) ==
    LET m == req.method
        p == req.path
    IN  IF Len(p) < 3 \/ SubSeq(p, 1, 2) # <<"api", "v1">> THEN "none"
        ELSE IF Len(p) = 3 /\ p[3] = "health" /\ m = "GET" THEN "health"
        ELSE IF p[3] # "todos" THEN "none"
        ELSE IF Len(p) = 3 /\ m = "POST" THEN "create_todo"
        ELSE IF Len(p) = 3 /\ m = "GET" THEN "list_todos"
        ELSE IF Len(p) = 4 /\ m = "GET" THEN "get_todo"
        ELSE IF Len(p) = 4 /\ m = "PUT" THEN "update_todo"
        ELSE IF Len(p) = 4 /\ m = "DELETE" THEN "delete_todo"
        ELSE "none"

\* HttpResponse::Ok().json(todo): Todo's derived Serialize
TodoJson(todo) ==
    [id          |-> todo.id,
     title       |-> JsonString(todo.title),
     description |-> SerializeOptString(todo.description),
     completed   |-> JsonBool(todo.completed),
     due_date    |-> SerializeOptTime(todo.due_date),
     created_at  |-> JsonTime(todo.created_at),
     updated_at  |-> JsonTime(todo.updated_at)]

\* web::Json<NewTodo>: title is a String and must be present
NewTodoDecodes(body) == body.title # <<>> /\ Unwrap(body.title) # JsonNull

\* serde_json::from_slice::<NewTodo>
DeserializeNewTodo(body) ==
    [title       |-> FromJsonValue(body.title),
     description |-> DeserializeOpt(body.description),
     due_date    |-> DeserializeOpt(body.due_date)]

\* the AppError a failed service call carries to the handler's `?`
AppErrorOf(status) ==
    [kind   |-> status,
     detail |-> CASE status = "Validation" -> "title must be 1..=200 characters"
                  [] status = "Db"         -> "near \",\": syntax error"
                  [] OTHER                 -> ""]

\* Result<impl Responder, AppError>: the handler's response on Ok, the
\* error's error_response on Err
Respond(r, response) ==
    [r EXCEPT !.ret = Some(IF r.status = "Ok" THEN response
                           ELSE error_response(AppErrorOf(r.status)))]

\* actix's answer when the Json extractor fails (JsonPayloadError)
PayloadError == [status |-> 400, body |-> "Json deserialize error"]

\* create_todo
create_todo(req, now) ==
    IF ~NewTodoDecodes(req.body)
    THEN Unchanged("BadRequest", Some(PayloadError), FALSE, <<>>)
    ELSE LET r == TodoService_create(DeserializeNewTodo(req.body), now)
         IN  Respond(r, [status |-> 201,
                         body   |-> IF r.status = "Ok" THEN TodoJson(Unwrap(r.ret))
                                    ELSE <<>>])

\* list_todos, for a request without query parameters
list_todos(req, items) ==
    Unchanged("Ok", Some([status |-> 200,
                          body   |-> [i \in DOMAIN items |-> TodoJson(items[i])]]),
              FALSE, items)

\* get_todo
get_todo(req) ==
    LET r == TodoService_get_by_id(req.path[4])
    IN  Respond(r, [status |-> 200,
                    body   |-> IF r.status = "Ok" THEN TodoJson(Unwrap(r.ret)) ELSE <<>>])

\* update_todo
update_todo(req, now) ==
    LET r == TodoService_update(req.path[4], Deserialize(req.body), now)
    IN  Respond(r, [status |-> 200,
                    body   |-> IF r.status = "Ok" THEN TodoJson(Unwrap(r.ret)) ELSE <<>>])

\* delete_todo: HttpResponse::NoContent().finish()
delete_todo(req) ==
    Respond(TodoService_delete(req.path[4]), [status |-> 204, body |-> <<>>])

\* health: HttpResponse::Ok().body("OK")
health(req) == Unchanged("Ok", Some([status |-> 200, body |-> "OK"]), FALSE, <<>>)

\* actix's answer to a request no resource matches
NotFoundResponse == [status |-> 404, body |-> <<>>]

HttpCreateTodo(req, now) ==
    LET r == create_todo(req, now)
    IN  /\ Route(req) = "create_todo"
        /\ r.seq <= MaxId
        /\ Commit("create_todo", "http", 0, req, r)

HttpListTodos(req) ==
    /\ Route(req) = "list_todos"
    /\ \E items \in SqliteTodoRepo_list(rows, [limit |-> None, offset |-> None,
                                                completed |-> None]) :
          Commit("list_todos", "http", 0, req, list_todos(req, items))

HttpGetTodo(req) ==
    /\ Route(req) = "get_todo"
    /\ Commit("get_todo", "http", req.path[4], req, get_todo(req))

HttpUpdateTodo(req, now) ==
    /\ Route(req) = "update_todo"
    /\ Commit("update_todo", "http", req.path[4], req, update_todo(req, now))

HttpDeleteTodo(req) ==
    /\ Route(req) = "delete_todo"
    /\ Commit("delete_todo", "http", req.path[4], req, delete_todo(req))

HttpHealth(req) ==
    /\ Route(req) = "health"
    /\ Commit("health", "http", 0, req, health(req))

HttpNoRoute(req) ==
    /\ Route(req) = "none"
    /\ Commit("none", "http", 0, req, Unchanged("NotFound", Some(NotFoundResponse), FALSE, <<>>))

----------------------------------------------------------------------------
(* SpecHttp: the requests of tests::http_flow_works and of the claims, on   *)
(* every id, and the health check on both of its candidate paths            *)

Task == <<[ch |-> "T", n |-> 1], [ch |-> "a", n |-> 1], [ch |-> "s", n |-> 1],
          [ch |-> "k", n |-> 1]>>
Desc == <<[ch |-> "d", n |-> 1], [ch |-> "e", n |-> 1], [ch |-> "s", n |-> 1],
          [ch |-> "c", n |-> 1]>>

NoBody == [title |-> <<>>, description |-> <<>>, completed |-> <<>>, due_date |-> <<>>]

\* {"title":"Task","description":"desc"}
PostBody == [NoBody EXCEPT !.title = Some(JsonString(Task)),
                           !.description = Some(JsonString(Desc))]

\* {"completed":true,"description":null}
PutBody == [NoBody EXCEPT !.completed = Some(JsonBool(TRUE)),
                          !.description = Some(JsonNull)]

Request(method, path, body) == [method |-> method, path |-> path, body |-> body]

Requests ==
    {Request("POST", <<"api", "v1", "todos">>, b) :
        b \in {PostBody, NoBody, [NoBody EXCEPT !.title = Some(JsonString(Blank))]}}
    \cup {Request("GET", <<"api", "v1", "todos">>, NoBody)}
    \cup {Request(m, <<"api", "v1", "todos", id>>, NoBody) :
            m \in {"GET", "DELETE"}, id \in Ids}
    \cup {Request("PUT", <<"api", "v1", "todos", id>>, b) :
            id \in Ids,
            b \in {PutBody, [NoBody EXCEPT !.title = Some(JsonString(Blank))]}}
    \cup {Request("GET", p, NoBody) :
            p \in {<<"health">>, <<"api", "v1", "health">>, <<"api", "v1">>}}

NextHttp ==
    \/ \E req \in Requests, now \in Now : HttpCreateTodo(req, now)
    \/ \E req \in Requests : HttpListTodos(req)
    \/ \E req \in Requests : HttpGetTodo(req)
    \/ \E req \in Requests, now \in Now : HttpUpdateTodo(req, now)
    \/ \E req \in Requests : HttpDeleteTodo(req)
    \/ \E req \in Requests : HttpHealth(req)
    \/ \E req \in Requests : HttpNoRoute(req)

SpecHttp == Init /\ [][NextHttp]_vars

\* C12: POST /api/v1/todos with title "Task" and description "desc" returns
\* 201 with completed false; GET of a stored id returns 200 with that Todo;
\* PUT on a stored id with {"completed":true,"description":null} returns 200
\* with completed true and description null; DELETE of a stored id returns
\* 204, and a GET of an id without a row returns 404.
C12_HttpFlow ==
    [][LET req  == Unwrap(call'.arg)
           resp == Unwrap(call'.ret)
       IN  /\ (call'.op = "create_todo" /\ req.body = PostBody)
                => /\ resp.status = 201
                   /\ resp.body.completed = JsonBool(FALSE)
           /\ (call'.op = "get_todo" /\ call'.id \in DOMAIN rows)
                => /\ resp.status = 200
                   /\ resp.body = TodoJson(rows[call'.id])
           /\ (call'.op = "update_todo" /\ call'.id \in DOMAIN rows /\ req.body = PutBody)
                => /\ resp.status = 200
                   /\ resp.body.completed = JsonBool(TRUE)
                   /\ resp.body.description = JsonNull
           /\ (call'.op = "delete_todo" /\ call'.id \in DOMAIN rows)
                => /\ resp.status = 204
                   /\ call'.id \notin DOMAIN rows'
           /\ (call'.op = "get_todo" /\ call'.id \notin DOMAIN rows)
                => resp.status = 404]_vars

\* C17 as stated: GET /health is answered by the health check, with 200 and a
\* plain body.
C17_AsStated ==
    (call.layer = "http" /\ Unwrap(call.arg).method = "GET"
       /\ Unwrap(call.arg).path = <<"health">>)
    => (Unwrap(call.ret).status = 200 /\ Unwrap(call.ret).body = "OK")

\* C17, amended: the health check is served inside the /api/v1 scope: GET
\* /api/v1/health returns 200 with the plain body "OK", and GET /health
\* matches no resource and returns 404.
C17_Health ==
    call.layer = "http"
    => LET req  == Unwrap(call.arg)
           resp == Unwrap(call.ret)
       IN  /\ (req.method = "GET" /\ req.path = <<"api", "v1", "health">>)
                => (call.op = "health" /\ resp.status = 200 /\ resp.body = "OK")
           /\ (req.method = "GET" /\ req.path = <<"health">>)
                => (call.op = "none" /\ resp.status = 404)

\* C17 witness: GET /api/v1/health was answered by the health check
C17_Witness ==
    /\ call.op = "health"
    /\ Unwrap(call.arg).path = <<"api", "v1", "health">>
    /\ Unwrap(call.ret).status = 200

----------------------------------------------------------------------------
(* SpecService: calls through the service only, with titles and             *)
(* descriptions on both sides of the validation limits, padded and not      *)

ServiceNewTodos ==
    NewTodos
    \cup [title : {TitleA}, due_date : {None},
          description : {Some(Padded(Rep("x", MaxDescLen))),
                         Some(Rep("x", MaxDescLen + 1))}]

\* a padded title, a padded description, a blank title
FewUpdates ==
    {[title |-> Some(Padded(TitleA)), description |-> None,
      completed |-> Some(TRUE), due_date |-> None],
     [title |-> None, description |-> Some(Some(Padded(DescD))),
      completed |-> None, due_date |-> Some(None)],
     [title |-> Some(Blank), description |-> None,
      completed |-> None, due_date |-> None]}

NextService ==
    \/ \E new \in ServiceNewTodos, now \in Now : ServiceCreate(new, now)
    \/ \E id \in Ids : ServiceGet(id)
    \/ \E id \in Ids, up \in FewUpdates, now \in Now : ServiceUpdate(id, up, now)
    \/ \E id \in Ids : ServiceDelete(id)

SpecService == Init /\ [][NextService]_vars

\* s has no leading and no trailing whitespace
NoOuterWhiteSpace(s) ==
    s # <<>> => ~IsWhiteSpace(s[1].ch) /\ ~IsWhiteSpace(s[Len(s)].ch)

\* C13: after any sequence of Service create, update and delete calls, every
\* stored Todo has a title with no leading or trailing whitespace and 1 to 200
\* characters, and a description that is null or has at most 2000 characters.
C13_StoredFields ==
    \A id \in DOMAIN rows :
        /\ NoOuterWhiteSpace(rows[id].title)
        /\ CharCount(rows[id].title) \in 1..MaxTitleLen
        /\ IsSome(rows[id].description)
             => CharCount(Unwrap(rows[id].description)) <= MaxDescLen

\* C13 witness: the service stored a Todo from a padded title of 200
\* characters, and another with a description of 2000 characters, and an
\* update was then called on a stored id
C13_Witness ==
    /\ call.op = "update" /\ call.id \in DOMAIN rows
    /\ \E id \in DOMAIN rows : CharCount(rows[id].title) = MaxTitleLen
    /\ \E id \in DOMAIN rows :
          /\ IsSome(rows[id].description)
          /\ CharCount(Unwrap(rows[id].description)) = MaxDescLen

----------------------------------------------------------------------------
(* Timestamps and ids (SpecUpdate, Spec) *)

\* C14: every stored Todo has created_at <= updated_at, and no update changes
\* the id or the created_at of a Todo, or which ids are stored.
C14_Timestamps ==
    [][/\ \A id \in DOMAIN rows' : /\ rows'[id].id = id
                                   /\ rows'[id].created_at <= rows'[id].updated_at
       /\ call'.op = "update"
            => /\ DOMAIN rows' = DOMAIN rows
               /\ \A id \in DOMAIN rows : /\ rows'[id].id = rows[id].id
                                          /\ rows'[id].created_at = rows[id].created_at]_vars

\* C14 witness: an update with a payload that passes validation was called on
\* a stored Todo at an instant after its creation
C14_Witness ==
    /\ call.op = "update" /\ call.status # "Validation"
    /\ call.id \in DOMAIN rows
    /\ rows[call.id].created_at < clock

\* C15: no create returns an id that an earlier create returned, also after
\* deletes, and also when the Todo with the highest id has been deleted.
C15_IdNeverReused ==
    [][(call'.op = "create" /\ call'.status = "Ok")
        => /\ Unwrap(call'.ret).id \notin issued
           /\ \A id \in issued : id < Unwrap(call'.ret).id]_vars

\* C15 witness: a create succeeded when every id issued before it, the
\* highest among them, had been deleted
C15_Witness ==
    /\ call.op = "create" /\ call.status = "Ok"
    /\ Cardinality(issued) >= 2
    /\ DOMAIN rows = {Unwrap(call.ret).id}

----------------------------------------------------------------------------
(* Repository.create called directly (Spec) *)

\* C18 as stated: Repository.create, called directly, persists and returns
\* the title and the description without their leading and trailing
\* whitespace.
C18_AsStated ==
    [][(call'.op = "create" /\ call'.layer = "repo" /\ call'.status = "Ok")
        => LET new  == Unwrap(call'.arg)
               todo == Unwrap(call'.ret)
           IN  /\ rows'[todo.id] = todo
               /\ IsTrimOf(todo.title, new.title)
               /\ IsSome(new.description)
                    => /\ IsSome(todo.description)
                       /\ IsTrimOf(Unwrap(todo.description),
                                   Unwrap(new.description))]_vars

\* C18, amended: Repository.create, called directly, validates the trimmed
\* title but persists and returns title and description exactly as given,
\* whitespace included; the stored values are trimmed only when the call comes
\* through Service.create.
C18_RepoCreateStoresAsGiven ==
    [][(call'.op = "create" /\ call'.status = "Ok")
        => LET new  == Unwrap(call'.arg)
               todo == Unwrap(call'.ret)
           IN  /\ rows'[todo.id] = todo
               /\ call'.layer = "repo"
                    => /\ todo.title = new.title
                       /\ todo.description = new.description
               /\ call'.layer = "service"
                    => /\ IsTrimOf(todo.title, new.title)
                       /\ IsSome(new.description)
                            => IsTrimOf(Unwrap(todo.description),
                                        Unwrap(new.description))]_vars

\* C18 witness: Repository.create stored a padded title and a padded
\* description as given
C18_Witness ==
    /\ call.op = "create" /\ call.layer = "repo" /\ call.status = "Ok"
    /\ Unwrap(call.arg).title = Padded(TitleA)
    /\ rows[Unwrap(call.ret).id].title = Padded(TitleA)
    /\ rows[Unwrap(call.ret).id].description = Some(Padded(DescD))

----------------------------------------------------------------------------
(* Validation of updates (SpecUpdate) *)

\* C20: an update fails validation exactly when a present title has trimmed
\* length 0 or more than 200, or a present non-null description has more than
\* 2000 characters (as the repository receives it: trimmed when the call comes
\* through the service); the title is checked first; an absent field and a
\* present-and-null description never fail; and an update that validation
\* rejects changes no row, whether or not the id has one.
C20_ValidateUpdate ==
    [][call'.op = "update"
        => LET up       == Unwrap(call'.arg)
               titleBad == /\ IsSome(up.title)
                           /\ TrimmedLen(Unwrap(up.title)) \notin 1..MaxTitleLen
               descBad  == /\ IsSome(up.description)
                           /\ IsSome(Unwrap(up.description))
                           /\ LET d == Unwrap(Unwrap(up.description))
                              IN  (IF call'.layer = "service" THEN TrimmedLen(d)
                                   ELSE CharCount(d)) > MaxDescLen
           IN  /\ call'.status = "Validation" <=> (titleBad \/ descBad)
               /\ titleBad => call'.items = <<TitleMessage>>
               /\ (~titleBad /\ descBad) => call'.items = <<DescriptionMessage>>
               /\ call'.status = "Validation" => (rows' = rows /\ call'.ret = None)]_vars

\* C20 witness: Repository.update with a blank title and a description too
\* long was rejected for its title, on an id that has a row
C20_Witness ==
    /\ call.op = "update" /\ call.layer = "repo" /\ call.status = "Validation"
    /\ call.id \in DOMAIN rows
    /\ Unwrap(call.arg).title = Some(Blank)
    /\ Unwrap(call.arg).description = Some(Some(Rep("x", MaxDescLen + 1)))
    /\ call.items = <<TitleMessage>>

----------------------------------------------------------------------------
(* Updates and deletes of the same id, in any order (SpecUpdate)            *)
(*                                                                          *)
(* Each SQL statement is one step of the store. SqliteTodoRepo::update runs *)
(* a single statement before it returns or reads back, and its execute      *)
(* fails when the statement is prepared, so a call of update is one step    *)
(* and the calls of SpecUpdate, taken in every order, are the               *)
(* interleavings of concurrent callers.                                     *)

\* C19: an update whose payload passes validation, on an id whose row a delete
\* has removed, resolves to not found and writes nothing; on an id that has a
\* row it writes every field it names or none.
C19_UpdateAtomic ==
    [][(call'.op = "update" /\ ~UpdateRejected(call'.layer, Unwrap(call'.arg)))
        => LET up == Unwrap(call'.arg)
               id == call'.id
           IN  /\ (id \in issued /\ id \notin DOMAIN rows)
                    => /\ rows' = rows
                       /\ call'.ret = None
                       /\ call'.status \in {"Ok", "NotFound"}
               /\ (id \in DOMAIN rows /\ rows'[id] # rows[id])
                    => /\ IsSome(up.title)
                            => Written(call'.layer, rows'[id].title, Unwrap(up.title))
                       /\ IsSome(up.completed)
                            => rows'[id].completed = Unwrap(up.completed)
                       /\ IsSome(up.due_date) => rows'[id].due_date = Unwrap(up.due_date)
                       /\ up.description = Some(None) => rows'[id].description = None]_vars

----------------------------------------------------------------------------
(* updated_at (SpecUpdate) *)

\* C21: an update whose payload passes validation, on an id that has a row,
\* succeeds and leaves the row's updated_at at the instant the update read
\* from the clock, whichever fields the payload names, none included.
C21_UpdatedAtRefreshed ==
    [][(call'.op = "update" /\ call'.id \in DOMAIN rows
          /\ ~UpdateRejected(call'.layer, Unwrap(call'.arg)))
        => /\ call'.status = "Ok"
           /\ call'.id \in DOMAIN rows'
           /\ rows'[call'.id].updated_at = clock'
           /\ IsSome(call'.ret)
           /\ Unwrap(call'.ret).updated_at = clock']_vars

----------------------------------------------------------------------------
(* SpecCreate: SqliteTodoRepo::create statement by statement                *)
(*                                                                          *)
(* create awaits three statements, each given to the pool on its own        *)
(* (execute(&self.pool), fetch_one(&self.pool), fetch_optional(&self.pool)) *)
(* and none inside a transaction. A statement is one step of the store; it  *)
(* runs on whichever connection the pool hands out, and it may fail with a  *)
(* sqlx::Error. Between two statements of one caller the statements of      *)
(* other callers, and deletes, may run.                                     *)

\* create has returned status and ret to caller t
Returned(t, status, ret) ==
    [creates EXCEPT ![t].pc = "returned", ![t].status = status, ![t].ret = ret]

\* lines 50-68: validation, the clock, and the INSERT on connection c; ok is
\* whether the store executes the statement
CreateInsert(t, new, now, c, ok) ==
    /\ creates[t].pc = "idle"
    /\ IF validate_new_todo(new) # "Ok"
       THEN /\ creates' = Returned(t, "Validation", None)
            /\ UNCHANGED <<rows, seq, pool, clock>>
       ELSE IF ~ok
       THEN /\ creates' = Returned(t, "Db", None)
            /\ clock' = now
            /\ UNCHANGED <<rows, seq, pool>>
       ELSE /\ NextRowId <= MaxId
            /\ rows' = rows @@ (NextRowId :> InsertRow(NextRowId, new, now))
            /\ seq' = NextRowId
            /\ pool' = [pool EXCEPT ![c] = NextRowId]
            /\ clock' = now
            /\ creates' = [creates EXCEPT ![t] =
                              [pc |-> "inserted", new |-> Some(new), now |-> now,
                               id |-> 0, inserted |-> NextRowId,
                               status |-> "none", ret |-> None]]
    /\ UNCHANGED <<last_rowid, issued, call, user_vars>>

\* lines 70-74: SELECT last_insert_rowid() on connection c
CreateLastInsertRowid(t, c, ok) ==
    /\ creates[t].pc = "inserted"
    /\ creates' = IF ok THEN [creates EXCEPT ![t].pc = "looked_up", ![t].id = pool[c]]
                  ELSE Returned(t, "Db", None)
    /\ UNCHANGED <<rows, seq, last_rowid, clock, issued, call, pool, user_vars>>

\* lines 76-82: fetch_by_id(id), the expect, and the return
CreateFetch(t, ok) ==
    /\ creates[t].pc = "looked_up"
    /\ LET todo == fetch_by_id(rows, creates[t].id)
       IN  /\ creates' = IF ~ok THEN Returned(t, "Db", None)
                         ELSE IF IsSome(todo) THEN Returned(t, "Ok", todo)
                         ELSE Returned(t, "Panic", None)
           /\ issued' = IF ok /\ IsSome(todo) THEN issued \cup {Unwrap(todo).id}
                        ELSE issued
    /\ UNCHANGED <<rows, seq, last_rowid, clock, call, pool, user_vars>>

\* the caller has taken the result of its call, and may call again
CreateDone(t) ==
    /\ creates[t].pc = "returned"
    /\ creates' = [creates EXCEPT ![t] = NoCreate]
    /\ UNCHANGED <<rows, seq, last_rowid, clock, issued, call, pool, user_vars>>

TitleB == Rep("b", 1)

\* two Todos that differ in every field a caller gives, and one that
\* validation rejects
CreateNewTodos ==
    {[title |-> TitleA, description |-> None, due_date |-> None],
     [title |-> TitleB, description |-> Some(DescD), due_date |-> Some(1)],
     [title |-> Blank, description |-> None, due_date |-> None]}

NextCreate ==
    \/ \E t \in Callers, new \in CreateNewTodos, now \in Now, c \in Conns, ok \in BOOLEAN :
          CreateInsert(t, new, now, c, ok)
    \/ \E t \in Callers, c \in Conns, ok \in BOOLEAN : CreateLastInsertRowid(t, c, ok)
    \/ \E t \in Callers, ok \in BOOLEAN : CreateFetch(t, ok)
    \/ \E t \in Callers : CreateDone(t)
    \/ \E id \in Ids : RepoDelete(id)

SpecCreate == Init /\ [][NextCreate]_vars

\* C22: every stored row has all its fields, and when create has returned an
\* error the table holds no row that the call inserted.
C22_CreateAtomic ==
    /\ \A id \in DOMAIN rows :
          /\ DOMAIN rows[id] = {"id", "title", "description", "completed",
                                "due_date", "created_at", "updated_at"}
          /\ rows[id].id = id
    /\ \A t \in Callers :
          (creates[t].pc = "returned" /\ creates[t].status # "Ok")
            => creates[t].inserted \notin DOMAIN rows

\* C23: a create whose statements the store all executed returns Ok with the
\* row it inserted itself (its own title, description and due_date), never
\* the expect's panic, and two creates never return the same id.
C23_CreateReturnsOwn ==
    /\ \A t \in Callers :
          (creates[t].pc = "returned" /\ creates[t].status \notin {"Validation", "Db"})
            => /\ creates[t].status = "Ok"
               /\ LET todo == Unwrap(creates[t].ret)
                       new  == Unwrap(creates[t].new)
                   IN  /\ todo.id = creates[t].inserted
                       /\ todo.title = new.title
                       /\ todo.description = new.description
                       /\ todo.due_date = new.due_date
    /\ \A t, u \in Callers :
          (t # u /\ creates[t].status = "Ok" /\ creates[u].status = "Ok")
            => Unwrap(creates[t].ret).id # Unwrap(creates[u].ret).id

----------------------------------------------------------------------------
(* SpecUser: the User example (src/main.rs)                                 *)
(*                                                                          *)
(* Every handler begins with data.lock().unwrap() and holds the guard until *)
(* it returns; it awaits nothing in between. A worker whose request has     *)
(* arrived waits for the Mutex, runs its handler's statements while it      *)
(* holds it, and releases it when it responds. No handler panics while it   *)
(* holds the guard, so the Mutex is never poisoned and unwrap() returns.    *)

\* users.keys().max().unwrap_or(&0) + 1, with the number of users for the
\* largest key
NewUserId_Count(map) == Cardinality(DOMAIN map) + 1

\* users.keys().max().unwrap_or(&0) + 1
NewUserId(map) ==
    IF DOMAIN map = {} THEN 0 + 1
    ELSE (CHOOSE m \in DOMAIN map : \A k \in DOMAIN map : k <= m) + 1

\* update_user, lines 118-123: the fields of the request that are Some
UpdateUser(user, body) ==
    [id    |-> user.id,
     name  |-> IF IsSome(body.name) THEN Unwrap(body.name) ELSE user.name,
     email |-> IF IsSome(body.email) THEN Unwrap(body.email) ELSE user.email]

UserNotFound == [status |-> 404, body |-> "User not found"]

\* a request arrives at worker w
UserRequest(w, req) ==
    /\ handlers[w].pc = "idle"
    /\ handlers' = [handlers EXCEPT ![w] =
                       [pc |-> "waiting", req |-> Some(req), id |-> 0,
                        response |-> None]]
    /\ UNCHANGED <<users, lock, todo_vars>>

\* data.lock().unwrap(): the handler of w takes the Mutex when no worker
\* holds it
UserLock(w) ==
    /\ handlers[w].pc = "waiting"
    /\ lock = None
    /\ lock' = Some(w)
    /\ handlers' = [handlers EXCEPT ![w].pc = "locked"]
    /\ UNCHANGED <<users, todo_vars>>

\* the handler of w returns response and drops its guard
Responds(w, response) ==
    /\ handlers' = [handlers EXCEPT ![w] =
                       [pc |-> "idle", req |-> None, id |-> 0,
                        response |-> Some(response)]]
    /\ lock' = None

\* create_user, line 92: the id of the new user
CreateUserId(w) ==
    /\ handlers[w].pc = "locked"
    /\ Unwrap(handlers[w].req).method = "POST"
    /\ NewUserId(users) <= MaxUsers
    /\ handlers' = [handlers EXCEPT ![w].pc = "has_id", ![w].id = NewUserId(users)]
    /\ UNCHANGED <<users, lock, todo_vars>>

\* create_user, lines 93-99: the insert and the 201
CreateUserInsert(w) ==
    /\ handlers[w].pc = "has_id"
    /\ LET body == Unwrap(handlers[w].req).body
           id   == handlers[w].id
           user == [id |-> id, name |-> body.name, email |-> body.email]
       IN  /\ users' = [k \in DOMAIN users \cup {id} |->
                           IF k = id THEN user ELSE users[k]]
           /\ Responds(w, [status |-> 201, body |-> user])
    /\ UNCHANGED todo_vars

\* update_user, lines 115-127
UpdateUserHandler(w) ==
    /\ handlers[w].pc = "locked"
    /\ Unwrap(handlers[w].req).method = "PUT"
    /\ LET req == Unwrap(handlers[w].req)
       IN  IF req.id \in DOMAIN users
           THEN LET user == UpdateUser(users[req.id], req.body)
                IN  /\ users' = [users EXCEPT ![req.id] = user]
                    /\ Responds(w, [status |-> 200, body |-> user])
           ELSE /\ users' = users
                /\ Responds(w, UserNotFound)
    /\ UNCHANGED todo_vars

\* delete_user, lines 142-148
DeleteUserHandler(w) ==
    /\ handlers[w].pc = "locked"
    /\ Unwrap(handlers[w].req).method = "DELETE"
    /\ LET req == Unwrap(handlers[w].req)
       IN  IF req.id \in DOMAIN users
           THEN /\ users' = [k \in DOMAIN users \ {req.id} |-> users[k]]
                /\ Responds(w, [status |-> 200, body |-> "User deleted"])
           ELSE /\ users' = users
                /\ Responds(w, UserNotFound)
    /\ UNCHANGED todo_vars

Names == {"ann"}
Emails == {"a@x"}

\* ids a request may name: every id create_user can assign, and one it
\* never does
UserIds == 1..(MaxUsers + 1)

UserRequests ==
    [method : {"POST"}, id : {0}, body : [name : Names, email : Emails]]
    \cup [method : {"PUT"}, id : UserIds,
          body : {[name |-> None, email |-> None],
                  [name |-> Some("bob"), email |-> None],
                  [name |-> None, email |-> Some("b@x")]}]
    \cup [method : {"DELETE"}, id : UserIds, body : {None}]

NextUser ==
    \/ \E w \in Workers, req \in UserRequests : UserRequest(w, req)
    \/ \E w \in Workers : UserLock(w)
    \/ \E w \in Workers : CreateUserId(w)
    \/ \E w \in Workers : CreateUserInsert(w)
    \/ \E w \in Workers : UpdateUserHandler(w)
    \/ \E w \in Workers : DeleteUserHandler(w)

SpecUser == Init /\ [][NextUser]_vars

\* C24: under every interleaving of the workers' requests, every key of the
\* map is the id of the user stored under it; create_user inserts under an id
\* that is larger than every key of the map and so overwrites no user, leaves
\* the other users as they were and answers 201 with the new user; two
\* workers never hold a new id at once; and update_user and delete_user on an
\* id that has no user answer 404 and leave the map as it was.
C24_UserMap ==
    [][/\ \A k \in DOMAIN users' : users'[k].id = k
       /\ \A w, v \in Workers :
             (w # v /\ handlers'[w].pc = "has_id") => handlers'[v].pc \notin {"locked", "has_id"}
       /\ \A w \in Workers :
             /\ (handlers[w].pc = "has_id" /\ handlers'[w].pc = "idle")
                  => LET id == handlers[w].id
                     IN  /\ id \notin DOMAIN users
                         /\ \A k \in DOMAIN users : k < id
                         /\ DOMAIN users' = DOMAIN users \cup {id}
                         /\ \A k \in DOMAIN users : users'[k] = users[k]
                         /\ Unwrap(handlers'[w].response).status = 201
                         /\ Unwrap(handlers'[w].response).body = users'[id]
             /\ (handlers[w].pc = "locked" /\ handlers'[w].pc = "idle"
                   /\ Unwrap(handlers[w].req).id \notin DOMAIN users)
                  => /\ Unwrap(handlers'[w].response).status = 404
                     /\ users' = users]_vars

\* C24 witness: one worker's create_user has answered 201 with id 2 when
\* user 1 was in the map, the other worker's update_user or delete_user of
\* an id that has no user has answered 404, and both users are in the map
C24_Witness ==
    /\ DOMAIN users = {1, 2}
    /\ handlers["w2"].pc = "idle"
    /\ IsSome(handlers["w2"].response)
    /\ Unwrap(handlers["w2"].response).status = 201
    /\ Unwrap(handlers["w2"].response).body.id = 2
    /\ handlers["w1"].pc = "idle"
    /\ handlers["w1"].response = Some(UserNotFound)

====
